---- MODULE Spec2Model ----
(***************************************************************************)
(* remix-params-helper: the parameter-to-object coercion engine of         *)
(* src/src/helper.ts (parseParams, processDef, getParamsInternal and the   *)
(* exported getParams / getParamsOrFail families), with the zod validator  *)
(* it hands the coerced object to.                                         *)
(*                                                                         *)
(* JavaScript values are tagged records; keys, raw values and messages are *)
(* strings, inspected character by character where the code does so.       *)
(***************************************************************************)
EXTENDS Integers, Sequences, FiniteSets, TLC

VARIABLES schema, entries, i, o, pc, issues, j, errors, result, outcome

vars == <<schema, entries, i, o, pc, issues, j, errors, result, outcome>>

(***************************************************************************)
(* JavaScript values                                                       *)
(***************************************************************************)
Undefined == [t |-> "undefined"]
Str(s) == [t |-> "string", s |-> s]
Num(n) == [t |-> "number", n |-> n]
NaN == [t |-> "nan"]
Bool(b) == [t |-> "boolean", b |-> b]
DateOf(ms) == [t |-> "date", ms |-> ms]
Obj(props) == [t |-> "object", props |-> props]
Arr(items) == [t |-> "array", items |-> items]
\* a host function object, such as Object.prototype.constructor
JSFunction == [t |-> "function"]
EmptyObj == Obj(<<>>)
\* an exception in flight: the result of a call that did not return
Throw(name, message) == [t |-> "throw", name |-> name, message |-> message]
IsThrow(x) == x.t = "throw"

\* the properties every plain object inherits from Object.prototype that the
\* model's keys can name
ObjectPrototypeKeys == {"constructor", "toString"}

\* o[key], a read: own properties, then Object.prototype for objects
GetProp(obj, key) ==
    IF obj.t = "object"
    THEN IF key \in DOMAIN obj.props THEN obj.props[key]
         ELSE IF key \in ObjectPrototypeKeys THEN JSFunction
         ELSE Undefined
    ELSE Undefined

\* o[key] = v, a write. The module is strict-mode code: a write to a property
\* of a primitive throws a TypeError. A non-index property written on an
\* array, a Date or a function is never read back by the validator and is
\* not kept.
SetProp(obj, key, v) ==
    IF obj.t = "object" THEN Obj((key :> v) @@ obj.props)
    ELSE IF obj.t \in {"string", "number", "boolean", "nan"}
    THEN Throw("TypeError", "Cannot create property '" \o key \o "'")
    ELSE obj

(***************************************************************************)
(* Strings                                                                 *)
(***************************************************************************)
\* s.includes(sub)
Includes(s, sub) ==
    \E p \in 1..(Len(s) - Len(sub) + 1) : SubSeq(s, p, p + Len(sub) - 1) = sub

\* s.indexOf(sub) + 1, for a string that includes sub
IndexOf(s, sub) ==
    CHOOSE p \in 1..(Len(s) - Len(sub) + 1) :
        /\ SubSeq(s, p, p + Len(sub) - 1) = sub
        /\ \A q \in 1..(p - 1) : SubSeq(s, q, q + Len(sub) - 1) # sub

\* s.replace(sub, ''): the first occurrence only
RemoveFirst(s, sub) ==
    IF Includes(s, sub)
    THEN LET p == IndexOf(s, sub)
         IN SubSeq(s, 1, p - 1) \o SubSeq(s, p + Len(sub), Len(s))
    ELSE s

Digits == {"0", "1", "2", "3", "4", "5", "6", "7", "8", "9"}

DigitValue(c) == CHOOSE d \in 0..9 : ToString(d) = c

RECURSIVE Trim(_)
Trim(s) ==
    IF s = "" THEN s
    ELSE IF Head(s) = " " THEN Trim(Tail(s))
    ELSE IF SubSeq(s, Len(s), Len(s)) = " " THEN Trim(SubSeq(s, 1, Len(s) - 1))
    ELSE s

RECURSIVE DecimalValue(_)
DecimalValue(s) ==
    IF s = "" THEN 0
    ELSE 10 * DecimalValue(SubSeq(s, 1, Len(s) - 1))
         + DigitValue(SubSeq(s, Len(s), Len(s)))

\* Number(value) on strings of digits, letters and blanks: blanks are trimmed,
\* the empty string is 0, a run of decimal digits is its value, the rest NaN
JSNumber(s) ==
    LET body == Trim(s)
    IN IF \A p \in 1..Len(body) : SubSeq(body, p, p) \in Digits
       THEN Num(DecimalValue(body))
       ELSE NaN

\* String(n) for a non-negative integer
NumberToString(n) == ToString(n)

\* Date.parse(value) on the ISO forms 1970-01-DD and 1970-01-DDT00:00:00.000Z
\* (milliseconds since the epoch) and on strings of letters (NaN); other
\* formats are implementation-defined and not drawn
DateParse(s) ==
    IF /\ Len(s) \in {10, 24}
       /\ SubSeq(s, 1, 8) = "1970-01-"
       /\ SubSeq(s, 9, 9) \in Digits
       /\ SubSeq(s, 10, 10) \in Digits
       /\ DecimalValue(SubSeq(s, 9, 10)) \in 1..31
       /\ Len(s) = 24 => SubSeq(s, 11, 24) = "T00:00:00.000Z"
    THEN Num((DecimalValue(SubSeq(s, 9, 10)) - 1) * 86400000)
    ELSE NaN

(***************************************************************************)
(* Schema nodes (zod)                                                      *)
(***************************************************************************)
\* the plain mapping z.object() was given: ZodObject.shape; fields in
\* declaration order
PlainShape(fields) == [kind |-> "PlainObject", fields |-> fields]
Field(name, def) == [name |-> name, def |-> def]
ZObject(fields) == [kind |-> "ZodObject", shape |-> PlainShape(fields)]
ZUnion(options) == [kind |-> "ZodUnion", options |-> options]
ZOptional(inner) == [kind |-> "ZodOptional", innerType |-> inner]
ZDefault(inner, dflt) == [kind |-> "ZodDefault", innerType |-> inner, defaultValue |-> dflt]
\* a refinement: ZodEffects over `inner` rejecting the values in `rejects`
ZEffects(inner, rejects) == [kind |-> "ZodEffects", schema |-> inner, rejects |-> rejects]
ZArray(element) == [kind |-> "ZodArray", element |-> element]
ZString == [kind |-> "ZodString", checks |-> <<>>]
ZStringWith(checks) == [kind |-> "ZodString", checks |-> checks]
ZNumber == [kind |-> "ZodNumber"]
ZBoolean == [kind |-> "ZodBoolean"]
ZDate == [kind |-> "ZodDate"]
ZEnum(values) == [kind |-> "ZodEnum", values |-> values]
ZNativeEnum(values) == [kind |-> "ZodNativeEnum", values |-> values]
ZLiteral(value) == [kind |-> "ZodLiteral", value |-> value]
\* a schema kind processDef has no branch for
ZAny == [kind |-> "ZodAny"]

FieldNames(shape) == {shape.fields[n].name : n \in DOMAIN shape.fields}

\* shape[key], a read on the resolved shape: a field of the plain mapping, an
\* inherited Object.prototype function, or undefined. A zod instance has no
\* property under any key the model draws.
ShapeGet(shape, key) ==
    IF shape.kind = "PlainObject"
    THEN IF key \in FieldNames(shape)
         THEN (CHOOSE f \in {shape.fields[n] : n \in DOMAIN shape.fields} : f.name = key).def
         ELSE IF key \in ObjectPrototypeKeys THEN [kind |-> "function"]
         ELSE [kind |-> "undefined"]
    ELSE [kind |-> "undefined"]

\* key in shape
InShape(shape, key) ==
    /\ shape.kind = "PlainObject"
    /\ key \in FieldNames(shape) \cup ObjectPrototypeKeys

(***************************************************************************)
(* processDef (helper.ts 207-245)                                          *)
(***************************************************************************)
\* lines 240-244: push onto an array already at o[key], else assign
StoreParsed(obj, key, parsedValue) ==
    LET cur == GetProp(obj, key)
    IN IF cur.t = "array"
       THEN SetProp(obj, key, Arr(Append(cur.items, parsedValue)))
       ELSE SetProp(obj, key, parsedValue)

\* lines 211-213
CoerceNumber(value) ==
    LET num == JSNumber(value.s) IN IF num = NaN THEN value ELSE num

\* lines 214-216
CoerceDate(value) ==
    LET date == DateParse(value.s) IN IF date = NaN THEN value ELSE DateOf(date.n)

\* CoerceBoolean with the fallback Boolean(value) lost: only "true" is true
CoerceBooleanStrict(value) == Bool(value.s = "true")

\* lines 217-219; Boolean(value) of a string is whether it is non-empty
CoerceBoolean(value) ==
    IF value.s = "true" THEN Bool(TRUE)
    ELSE IF value.s = "false" THEN Bool(FALSE)
    ELSE Bool(value.s # "")

RECURSIVE processDef(_, _, _, _)
processDef(def, obj, key, value) ==
    IF def.kind \in {"ZodString", "ZodLiteral"} THEN StoreParsed(obj, key, value)
    ELSE IF def.kind = "ZodNumber" THEN StoreParsed(obj, key, CoerceNumber(value))
    ELSE IF def.kind = "ZodDate" THEN StoreParsed(obj, key, CoerceDate(value))
    ELSE IF def.kind = "ZodBoolean" THEN StoreParsed(obj, key, CoerceBoolean(value))
    ELSE IF def.kind \in {"ZodNativeEnum", "ZodEnum"} THEN StoreParsed(obj, key, value)
    ELSE IF def.kind \in {"ZodOptional", "ZodDefault"}
    THEN processDef(def.innerType, obj, key, value)
    ELSE IF def.kind = "ZodArray"
    THEN processDef(def.element,
                    IF GetProp(obj, key) = Undefined
                    THEN SetProp(obj, key, Arr(<<>>)) ELSE obj,
                    key, value)
    ELSE IF def.kind = "ZodEffects" THEN processDef(def.schema, obj, key, value)
    ELSE IF def.kind = "function"
    \* def._def is undefined on a host function: reading .typeName throws
    THEN Throw("TypeError", "Cannot read properties of undefined (reading 'typeName')")
    ELSE Throw("Error", "Unexpected type " \o def.kind \o " for key " \o key)

(***************************************************************************)
(* parseParams (helper.ts 26-65)                                           *)
(***************************************************************************)
\* lines 28-39: unwrap ZodObject to its plain shape and ZodEffects to its
\* inner schema; the ternary never yields null
RECURSIVE ResolveShape(_)
ResolveShape(shape) ==
    IF shape.kind = "ZodObject" THEN ResolveShape(shape.shape)
    ELSE IF shape.kind = "ZodEffects" THEN ResolveShape(shape.schema)
    ELSE shape

\* line 57-60
StripArrayMarker(key) == IF Includes(key, "[]") THEN RemoveFirst(key, "[]") ELSE key

\* RestOfKey keeping only the last segment (rest.pop() for rest.join('.'))
RestOfKeyLast(key) ==
    LET dots == {p \in 1..Len(key) : SubSeq(key, p, p) = "."}
        last == CHOOSE p \in dots : \A q \in dots : q <= p
    IN SubSeq(key, last + 1, Len(key))

\* line 49: [parentProp, ...rest] = key.split('.'), rest.join('.')
ParentProp(key) == SubSeq(key, 1, IndexOf(key, ".") - 1)
RestOfKey(key) == SubSeq(key, IndexOf(key, ".") + 1, Len(key))

RECURSIVE parseParams(_, _, _, _)
RECURSIVE parseOptions(_, _, _, _)
\* lines 42-44: every option in turn, against the same object
parseOptions(obj, options, key, value) ==
    IF options = <<>> THEN obj
    ELSE LET o1 == parseParams(obj, Head(options), key, value)
         IN IF IsThrow(o1) THEN o1 ELSE parseOptions(o1, Tail(options), key, value)

parseParams(obj, sch, key, value) ==
    LET shape == ResolveShape(sch)
    IN IF shape.kind = "ZodUnion" THEN parseOptions(obj, shape.options, key, value)
       ELSE IF Includes(key, ".")
       THEN LET parentProp == ParentProp(key)
                cur == GetProp(obj, parentProp)
                o1 == SetProp(obj, parentProp, IF cur = Undefined THEN EmptyObj ELSE cur)
            IN IF IsThrow(o1) THEN o1
               ELSE IF InShape(shape, parentProp)
               THEN LET child == parseParams(GetProp(o1, parentProp),
                                             ShapeGet(shape, parentProp),
                                             RestOfKey(key), value)
                    IN IF IsThrow(child) THEN child ELSE SetProp(o1, parentProp, child)
               ELSE o1
       ELSE LET k == StripArrayMarker(key)
                def == ShapeGet(shape, k)
            IN IF def.kind # "undefined" THEN processDef(def, obj, k, value) ELSE obj

(***************************************************************************)
(* The validator: schema.safeParse(o) (helper.ts 89), zod 3 with its       *)
(* default error map. A parse returns a status (valid, dirty: issues but a *)
(* value, aborted), the parsed value and the issues in the order found.    *)
(***************************************************************************)
KeySeg(name) == [k |-> name]
IndexSeg(n) == [i |-> n]
Issue(code, path, message) == [code |-> code, path |-> path, message |-> message]
ParseReturn(status, value, iss) == [status |-> status, value |-> value, issues |-> iss]

\* zod's getParsedType
ParsedType(v) == v.t

\* invalid_type in the default error map
InvalidType(expected, data, path) ==
    Issue("invalid_type", path,
          IF data = Undefined THEN "Required"
          ELSE "Expected " \o expected \o ", received " \o ParsedType(data))

\* JSON.stringify of a string: quoted, with " and \ escaped
RECURSIVE JsonEscape(_)
JsonEscape(s) ==
    IF s = "" THEN ""
    ELSE (IF Head(s) \in {"\"", "\\"} THEN "\\" ELSE "") \o Head(s) \o JsonEscape(Tail(s))

JsonString(s) == "\"" \o JsonEscape(s) \o "\""

JsonScalar(v) ==
    IF v.t = "string" THEN JsonString(v.s)
    ELSE IF v.t = "number" THEN NumberToString(v.n)
    ELSE IF v.t = "boolean" THEN (IF v.b THEN "true" ELSE "false")
    ELSE "null"

\* util.joinValues: 'a' | 'b'
RECURSIVE JoinValues(_)
JoinValues(values) ==
    IF values = <<>> THEN ""
    ELSE "'" \o Head(values) \o "'"
         \o (IF Len(values) > 1 THEN " | " ELSE "") \o JoinValues(Tail(values))

SeqRange(s) == {s[n] : n \in DOMAIN s}

\* ZodString._parse: the type, then every check in order
RECURSIVE StringChecks(_, _, _)
StringChecks(checks, s, path) ==
    IF checks = <<>> THEN <<>>
    ELSE LET c == Head(checks)
             here == IF c.kind = "min" /\ Len(s) < c.value
                     THEN <<Issue("too_small", path,
                                  "String must contain at least "
                                  \o NumberToString(c.value) \o " character(s)")>>
                     ELSE IF c.kind = "email" /\ ~Includes(s, "@")
                     THEN <<Issue("invalid_string", path, "Invalid email")>>
                     ELSE <<>>
         IN here \o StringChecks(Tail(checks), s, path)

Worst(a, b) ==
    IF "aborted" \in {a, b} THEN "aborted"
    ELSE IF "dirty" \in {a, b} THEN "dirty" ELSE "valid"

RECURSIVE ZParse(_, _, _)
RECURSIVE ZParseFields(_, _, _)
RECURSIVE ZParseItems(_, _, _, _)
RECURSIVE ZParseUnion(_, _, _, _)

\* ZodObject._parse, strip mode: the shape's keys in order; a key is kept in
\* the output when its value is defined or the input has it
ZParseFields(fields, data, path) ==
    IF fields = <<>> THEN ParseReturn("valid", EmptyObj, <<>>)
    ELSE LET f == fields[Len(fields)]
             before == ZParseFields(SubSeq(fields, 1, Len(fields) - 1), data, path)
             own == IF f.name \in DOMAIN data.props THEN data.props[f.name] ELSE Undefined
             r == ZParse(f.def, own, Append(path, KeySeg(f.name)))
             keep == r.value # Undefined \/ f.name \in DOMAIN data.props
         IN ParseReturn(Worst(before.status, r.status),
                        IF keep /\ r.status # "aborted" /\ before.status # "aborted"
                        THEN SetProp(before.value, f.name, r.value)
                        ELSE before.value,
                        before.issues \o r.issues)

\* ZodArray._parse: the items in order, each under its index
ZParseItems(element, items, n, path) ==
    IF n > Len(items) THEN ParseReturn("valid", Arr(<<>>), <<>>)
    ELSE LET r == ZParse(element, items[n], Append(path, IndexSeg(n - 1)))
             rest == ZParseItems(element, items, n + 1, path)
         IN ParseReturn(Worst(r.status, rest.status),
                        Arr(<<r.value>> \o rest.value.items),
                        r.issues \o rest.issues)

\* ZodUnion._parse (sync): the first valid option; else the first dirty one,
\* with its issues; else one invalid_union issue
ZParseUnion(options, data, path, dirty) ==
    IF options = <<>>
    THEN IF dirty # Undefined THEN dirty
         ELSE ParseReturn("aborted", Undefined,
                          <<Issue("invalid_union", path, "Invalid input")>>)
    ELSE LET r == ZParse(Head(options), data, path)
         IN IF r.status = "valid" THEN r
            ELSE ZParseUnion(Tail(options), data, path,
                             IF r.status = "dirty" /\ dirty = Undefined THEN r ELSE dirty)

ZParse(node, data, path) ==
    IF node.kind = "ZodString"
    THEN IF ParsedType(data) # "string"
         THEN ParseReturn("aborted", Undefined, <<InvalidType("string", data, path)>>)
         ELSE LET iss == StringChecks(node.checks, data.s, path)
              IN ParseReturn(IF iss = <<>> THEN "valid" ELSE "dirty", data, iss)
    ELSE IF node.kind \in {"ZodNumber", "ZodBoolean", "ZodDate"}
    THEN LET expected == IF node.kind = "ZodNumber" THEN "number"
                         ELSE IF node.kind = "ZodBoolean" THEN "boolean" ELSE "date"
         IN IF ParsedType(data) # expected
            THEN ParseReturn("aborted", Undefined, <<InvalidType(expected, data, path)>>)
            ELSE ParseReturn("valid", data, <<>>)
    ELSE IF node.kind \in {"ZodEnum", "ZodNativeEnum"}
    THEN IF ParsedType(data) # "string"
         THEN ParseReturn("aborted", Undefined,
                          <<InvalidType(JoinValues(node.values), data, path)>>)
         ELSE IF data.s \notin SeqRange(node.values)
         THEN ParseReturn("aborted", Undefined,
                          <<Issue("invalid_enum_value", path,
                                  "Invalid enum value. Expected " \o JoinValues(node.values)
                                  \o ", received '" \o data.s \o "'")>>)
         ELSE ParseReturn("valid", data, <<>>)
    ELSE IF node.kind = "ZodLiteral"
    THEN IF data # node.value
         THEN ParseReturn("aborted", Undefined,
                          <<Issue("invalid_literal", path,
                                  "Invalid literal value, expected " \o JsonScalar(node.value))>>)
         ELSE ParseReturn("valid", data, <<>>)
    ELSE IF node.kind = "ZodOptional"
    THEN IF data = Undefined THEN ParseReturn("valid", Undefined, <<>>)
         ELSE ZParse(node.innerType, data, path)
    ELSE IF node.kind = "ZodDefault"
    THEN ZParse(node.innerType, IF data = Undefined THEN node.defaultValue ELSE data, path)
    ELSE IF node.kind = "ZodEffects"
    THEN LET inner == ZParse(node.schema, data, path)
         IN IF inner.status = "aborted" THEN inner
            ELSE IF inner.value \in node.rejects
            THEN ParseReturn("dirty", inner.value,
                             Append(inner.issues, Issue("custom", path, "Invalid input")))
            ELSE inner
    ELSE IF node.kind = "ZodArray"
    THEN IF ParsedType(data) # "array"
         THEN ParseReturn("aborted", Undefined, <<InvalidType("array", data, path)>>)
         ELSE ZParseItems(node.element, data.items, 1, path)
    ELSE IF node.kind = "ZodObject"
    THEN IF ParsedType(data) # "object"
         THEN ParseReturn("aborted", Undefined, <<InvalidType("object", data, path)>>)
         ELSE ZParseFields(node.shape.fields, data, path)
    ELSE IF node.kind = "ZodUnion"
    THEN ZParseUnion(node.options, data, path, Undefined)
    ELSE ParseReturn("valid", data, <<>>)

\* schema.safeParse(o): success when the parse is valid, else the issues
safeParse(sch, data) ==
    LET r == ZParse(sch, data, <<>>)
    IN IF r.status = "valid"
       THEN [success |-> TRUE, data |-> r.value, issues |-> <<>>]
       ELSE [success |-> FALSE, data |-> Undefined, issues |-> r.issues]

(***************************************************************************)
(* getParamsInternal (helper.ts 67-117)                                    *)
(***************************************************************************)
Pair(key, value) == [key |-> key, value |-> value]

\* IsEmptyParam with the check of line 83 lost
IsEmptyParamNever(value) == FALSE

\* line 83: value === ''
IsEmptyParam(value) == value = ""

\* the errors object: its own properties in insertion order
ErrorsObj(props) == [t |-> "errors", props |-> props]
ErrorKeys(errs) == {errs[n].key : n \in DOMAIN errs}
ErrorIndex(errs, key) == CHOOSE n \in DOMAIN errs : errs[n].key = key

\* addError that overwrites the entry of a key it has seen
addErrorOverwrite(errs, key, message) ==
    IF key \notin ErrorKeys(errs)
    THEN Append(errs, [key |-> key, value |-> Str(message)])
    ELSE [errs EXCEPT ![ErrorIndex(errs, key)].value = Str(message)]

\* lines 94-103
addError(errs, key, message) ==
    IF key \notin ErrorKeys(errs)
    THEN Append(errs, [key |-> key, value |-> Str(message)])
    ELSE LET n == ErrorIndex(errs, key)
             old == errs[n].value
             list == IF old.t = "array" THEN old.items ELSE <<old>>
         IN [errs EXCEPT ![n].value = Arr(Append(list, Str(message)))]

\* line 106, const [key, index] = path: a missing element is undefined, and
\* undefined as a property key is the string "undefined"
SegmentKey(seg) == IF "k" \in DOMAIN seg THEN seg.k ELSE NumberToString(seg.i)
IssueKey(issue) == IF issue.path = <<>> THEN "undefined" ELSE SegmentKey(issue.path[1])

\* lines 107-111: value = o[key]; with an index, value[index] is read, which
\* throws when o[key] is undefined
IssueReadThrows(obj, issue) ==
    /\ Len(issue.path) >= 2
    /\ GetProp(obj, IssueKey(issue)) = Undefined

Success(data) == [success |-> TRUE, data |-> data, errors |-> Undefined]
Failure(errs) == [success |-> FALSE, data |-> Undefined, errors |-> ErrorsObj(errs)]

\* JSON.stringify(result.errors), line 152
RECURSIVE JsonList(_)
JsonList(items) ==
    IF items = <<>> THEN ""
    ELSE JsonString(Head(items).s)
         \o (IF Len(items) > 1 THEN "," ELSE "") \o JsonList(Tail(items))

RECURSIVE JsonMembers(_)
JsonMembers(props) ==
    IF props = <<>> THEN ""
    ELSE LET e == Head(props)
         IN JsonString(e.key) \o ":"
            \o (IF e.value.t = "array" THEN "[" \o JsonList(e.value.items) \o "]"
                ELSE JsonString(e.value.s))
            \o (IF Len(props) > 1 THEN "," ELSE "") \o JsonMembers(Tail(props))

JSONstringify(errs) == "{" \o JsonMembers(errs.props) \o "}"

(***************************************************************************)
(* Schemas and inputs drawn                                                *)
(***************************************************************************)
MaxEntries == 3

ProfileSchema ==
    ZObject(<<Field("name", ZOptional(ZStringWith(<<[kind |-> "min", value |-> 2],
                                                    [kind |-> "email"]>>))),
              Field("age", ZOptional(ZNumber)),
              Field("ok", ZOptional(ZBoolean))>>)

ProfilePairs ==
    {Pair("name", ""), Pair("name", "a"), Pair("name", "a@b"),
     Pair("age", ""), Pair("age", "7"), Pair("age", "ab"), Pair("age", " "),
     Pair("ok", "true"), Pair("ok", "false"), Pair("ok", "yes"),
     Pair("unexpected", "x"), Pair("name.x", "v"), Pair("name.x.y", "v"),
     Pair("constructor", "x")}

AddressSchema ==
    ZObject(<<Field("address",
                    ZObject(<<Field("city", ZString),
                              Field("zip", ZOptional(ZNumber)),
                              Field("geo", ZEffects(
                                  ZObject(<<Field("lat", ZOptional(ZNumber))>>), {}))>>))>>)

AddressPairs ==
    {Pair("address.city", "Boston"), Pair("address.city", ""),
     Pair("address.zip", "02101"), Pair("address.geo.lat", "7"),
     Pair("address", "x"), Pair("address.x", "v"), Pair("other.city", "v")}

TagsSchema ==
    ZObject(<<Field("tags", ZArray(ZString)),
              Field("nums", ZOptional(ZArray(ZNumber))),
              Field("n", ZEffects(ZOptional(ZNumber), {Num(0)}))>>)

TagsPairs ==
    {Pair("tags[]", "a"), Pair("tags[]", "b"), Pair("tags", "c"), Pair("tags[]", ""),
     Pair("nums[]", "1"), Pair("nums[]", "x"), Pair("n", "1"), Pair("n", "0"),
     Pair("tags.x", "v"), Pair("extra[]", "v")}

UnionSchema ==
    ZUnion(<<ZObject(<<Field("kind", ZLiteral(Str("a"))),
                       Field("tags", ZOptional(ZArray(ZString))),
                       Field("v", ZOptional(ZNumber))>>),
             ZObject(<<Field("kind", ZLiteral(Str("b"))),
                       Field("tags", ZOptional(ZArray(ZString))),
                       Field("v", ZOptional(ZString)),
                       Field("w", ZOptional(ZArray(ZNumber)))>>)>>)

UnionPairs ==
    {Pair("kind", "a"), Pair("kind", "b"), Pair("kind", "c"),
     Pair("tags[]", "x"), Pair("v", "7"), Pair("v", "ab"), Pair("w[]", "3")}

LeavesSchema ==
    ZObject(<<Field("d", ZOptional(ZDate)),
              Field("e", ZOptional(ZEnum(<<"red", "blue">>))),
              Field("ne", ZOptional(ZNativeEnum(<<"up", "down">>))),
              Field("lit", ZOptional(ZLiteral(Str("on")))),
              Field("w", ZOptional(ZDefault(ZEffects(ZNumber, {Num(0)}), Num(1)))),
              Field("any", ZAny),
              Field("u", ZOptional(ZUnion(<<ZString, ZNumber>>)))>>)

LeavesPairs ==
    {Pair("d", "1970-01-02"), Pair("d", "ab"), Pair("e", "red"), Pair("e", "green"),
     Pair("ne", "up"), Pair("lit", "on"), Pair("lit", "off"),
     Pair("w", "7"), Pair("w", "0"), Pair("w", "ab"), Pair("any", "x"), Pair("u", "x")}

Scenarios ==
    {[schema |-> ProfileSchema, pairs |-> ProfilePairs],
     [schema |-> AddressSchema, pairs |-> AddressPairs],
     [schema |-> TagsSchema, pairs |-> TagsPairs],
     [schema |-> UnionSchema, pairs |-> UnionPairs],
     [schema |-> LeavesSchema, pairs |-> LeavesPairs]}

\* the sequences over S of length at most n
SeqsUpTo(S, n) == UNION {[1..m -> S] : m \in 0..n}

(***************************************************************************)
(* The call: pc is the position in getParamsInternal and its caller        *)
(*   "loop"      line 81, before entry i                                   *)
(*   "errors"    line 104, before issue j                                  *)
(*   "returned"  getParamsInternal has returned `result` to its caller     *)
(*   "done"      the exported function has returned or thrown `outcome`    *)
(*   "threw"     an exception left getParamsInternal, and so its caller    *)
(***************************************************************************)
NoOutcome == [t |-> "none"]
Returned(fn, value) == [t |-> "return", fn |-> fn, value |-> value]
Thrown(fn, err) == [t |-> "throw", fn |-> fn, name |-> err.name, message |-> err.message]

Init ==
    /\ \E sc \in Scenarios :
          /\ schema = sc.schema
          /\ entries \in SeqsUpTo(sc.pairs, MaxEntries)
    /\ i = 1
    /\ o = EmptyObj
    /\ pc = "loop"
    /\ issues = <<>>
    /\ j = 1
    /\ errors = <<>>
    /\ result = Undefined
    /\ outcome = NoOutcome

\* lines 83-85: an empty param is skipped
SkipEmpty ==
    /\ pc = "loop"
    /\ i <= Len(entries)
    /\ IsEmptyParam(entries[i].value)
    /\ i' = i + 1
    /\ UNCHANGED <<schema, entries, o, pc, issues, j, errors, result, outcome>>

\* line 86: parseParams(o, schema, key, value); an exception leaves the call
RouteEntry ==
    /\ pc = "loop"
    /\ i <= Len(entries)
    /\ ~IsEmptyParam(entries[i].value)
    /\ LET o1 == parseParams(o, schema, entries[i].key, Str(entries[i].value))
       IN IF IsThrow(o1)
          THEN /\ pc' = "threw"
               /\ outcome' = o1
               /\ UNCHANGED <<o, i>>
          ELSE /\ o' = o1
               /\ i' = i + 1
               /\ UNCHANGED <<pc, outcome>>
    /\ UNCHANGED <<schema, entries, issues, j, errors, result>>

\* lines 89-93: schema.safeParse(o)
Validate ==
    /\ pc = "loop"
    /\ i > Len(entries)
    /\ LET r == safeParse(schema, o)
       IN IF r.success
          THEN /\ result' = Success(r.data)
               /\ pc' = "returned"
               /\ UNCHANGED issues
          ELSE /\ issues' = r.issues
               /\ pc' = "errors"
               /\ UNCHANGED result
    /\ UNCHANGED <<schema, entries, i, o, j, errors, outcome>>

\* lines 104-114: one issue
AddIssue ==
    /\ pc = "errors"
    /\ j <= Len(issues)
    /\ IF IssueReadThrows(o, issues[j])
       THEN /\ pc' = "threw"
            /\ outcome' = Throw("TypeError", "Cannot read properties of undefined")
            /\ UNCHANGED <<errors, j>>
       ELSE /\ errors' = addError(errors, IssueKey(issues[j]), issues[j].message)
            /\ j' = j + 1
            /\ UNCHANGED <<pc, outcome>>
    /\ UNCHANGED <<schema, entries, i, o, issues, result>>

\* line 115
ReturnFailure ==
    /\ pc = "errors"
    /\ j > Len(issues)
    /\ result' = Failure(errors)
    /\ pc' = "returned"
    /\ UNCHANGED <<schema, entries, i, o, issues, j, errors, outcome>>

\* lines 119-143: getParams, getSearchParams, getFormData hand the result on
ReturnResult(fn) ==
    /\ pc = "returned"
    /\ outcome' = Returned(fn, result)
    /\ pc' = "done"
    /\ UNCHANGED <<schema, entries, i, o, issues, j, errors, result>>

\* OrFail with the success test lost: the data, undefined on a failure
OrFailNoThrow(res) == res.data

\* lines 150-154, 163-167, 176-180
OrFail(res) ==
    IF ~res.success THEN Throw("Error", JSONstringify(res.errors)) ELSE res.data

ReturnOrFail(fn) ==
    /\ pc = "returned"
    /\ outcome' = LET r == OrFail(result)
                  IN IF IsThrow(r) THEN Thrown(fn, r) ELSE Returned(fn, r)
    /\ pc' = "done"
    /\ UNCHANGED <<schema, entries, i, o, issues, j, errors, result>>

getParams == ReturnResult("getParams")
getSearchParams == ReturnResult("getSearchParams")
getFormData == ReturnResult("getFormData")
getParamsOrFail == ReturnOrFail("getParamsOrFail")
getSearchParamsOrFail == ReturnOrFail("getSearchParamsOrFail")
getFormDataOrFail == ReturnOrFail("getFormDataOrFail")

Next ==
    \/ SkipEmpty
    \/ RouteEntry
    \/ Validate
    \/ AddIssue
    \/ ReturnFailure
    \/ getParams
    \/ getSearchParams
    \/ getFormData
    \/ getParamsOrFail
    \/ getSearchParamsOrFail
    \/ getFormDataOrFail

Spec == Init /\ [][Next]_vars

(***************************************************************************)
(* getParamsInternal as one function of its arguments: the loop of lines   *)
(* 81-87, the validation and the error aggregation, to the result returned *)
(* or the exception thrown                                                 *)
(***************************************************************************)
RECURSIVE RouteAll(_, _, _)
RouteAll(obj, sch, ents) ==
    IF ents = <<>> THEN obj
    ELSE IF IsEmptyParam(Head(ents).value) THEN RouteAll(obj, sch, Tail(ents))
    ELSE LET o1 == parseParams(obj, sch, Head(ents).key, Str(Head(ents).value))
         IN IF IsThrow(o1) THEN o1 ELSE RouteAll(o1, sch, Tail(ents))

RECURSIVE AddAll(_, _, _)
AddAll(errs, obj, iss) ==
    IF iss = <<>> THEN ErrorsObj(errs)
    ELSE IF IssueReadThrows(obj, Head(iss))
    THEN Throw("TypeError", "Cannot read properties of undefined")
    ELSE AddAll(addError(errs, IssueKey(Head(iss)), Head(iss).message), obj, Tail(iss))

getParamsInternal(params, sch) ==
    LET o1 == RouteAll(EmptyObj, sch, params)
    IN IF IsThrow(o1) THEN o1
       ELSE LET r == safeParse(sch, o1)
            IN IF r.success THEN Success(r.data)
               ELSE LET e == AddAll(<<>>, o1, r.issues)
                    IN IF IsThrow(e) THEN e ELSE Failure(e.props)

\* what the call has produced in a state where getParamsInternal has ended
Ended == pc \in {"returned", "threw"}
Produced == IF pc = "threw" THEN outcome ELSE result

\* the entries routed so far (entry i is the next, or the one that threw)
Routed == SubSeq(entries, 1, i - 1)

(***************************************************************************)
(* Vocabulary of the properties                                            *)
(***************************************************************************)
NonEmptyPair(p) == p.value # ""
NonEmptyPairs(ents) == SelectSeq(ents, NonEmptyPair)

LeafKinds ==
    {"ZodString", "ZodNumber", "ZodBoolean", "ZodDate", "ZodEnum", "ZodNativeEnum",
     "ZodLiteral"}
WrapperKinds == {"ZodOptional", "ZodDefault", "ZodEffects"}
NoDef == [kind |-> "undefined"]

\* the node under any nesting of Optional / Default / Effect wrappers
RECURSIVE Unwrapped(_)
Unwrapped(def) ==
    IF def.kind \in {"ZodOptional", "ZodDefault"} THEN Unwrapped(def.innerType)
    ELSE IF def.kind = "ZodEffects" THEN Unwrapped(def.schema)
    ELSE def

\* the declared field `name` of an Object node, NoDef when it has none
DeclaredField(node, name) ==
    IF node.kind = "ZodObject" /\ \E n \in DOMAIN node.shape.fields : node.shape.fields[n].name = name
    THEN node.shape.fields[CHOOSE n \in DOMAIN node.shape.fields :
                               node.shape.fields[n].name = name].def
    ELSE NoDef

\* an Effect over an Object has the Object's structure
RECURSIVE Structural(_)
Structural(node) == IF node.kind = "ZodEffects" THEN Structural(node.schema) ELSE node

\* the field a '.'-separated path names, following field names through nested
\* Object schemas; NoDef when the path leaves the schema
RECURSIVE FieldAtPath(_, _)
FieldAtPath(node, key) ==
    IF ~Includes(key, ".") THEN DeclaredField(Structural(node), key)
    ELSE LET parent == DeclaredField(Structural(node), SubSeq(key, 1, IndexOf(key, ".") - 1))
         IN IF parent = NoDef THEN NoDef
            ELSE FieldAtPath(parent, SubSeq(key, IndexOf(key, ".") + 1, Len(key)))

\* the own value of obj at a '.'-separated path
RECURSIVE ValueAtPath(_, _)
ValueAtPath(obj, key) ==
    IF obj.t # "object" THEN Undefined
    ELSE IF ~Includes(key, ".")
    THEN IF key \in DOMAIN obj.props THEN obj.props[key] ELSE Undefined
    ELSE LET head == SubSeq(key, 1, IndexOf(key, ".") - 1)
         IN IF head \in DOMAIN obj.props
            THEN ValueAtPath(obj.props[head], SubSeq(key, IndexOf(key, ".") + 1, Len(key)))
            ELSE Undefined

\* the coercion the specification gives for a leaf kind and a raw string
ExpectedLeaf(kind, raw) ==
    IF kind = "ZodNumber"
    THEN IF JSNumber(raw) = NaN THEN Str(raw) ELSE JSNumber(raw)
    ELSE IF kind = "ZodBoolean"
    THEN IF raw = "false" THEN Bool(FALSE) ELSE Bool(TRUE)
    ELSE IF kind = "ZodDate"
    THEN IF DateParse(raw) = NaN THEN Str(raw) ELSE DateOf(DateParse(raw).n)
    ELSE Str(raw)

\* the top-level fields a schema declares: of an Object, or of every option
\* of a Union of Objects
RECURSIVE TopFields(_)
TopFields(sch) ==
    LET node == Structural(sch)
    IN IF node.kind = "ZodObject" THEN FieldNames(node.shape)
       ELSE IF node.kind = "ZodUnion"
       THEN UNION {TopFields(node.options[n]) : n \in DOMAIN node.options}
       ELSE {}

\* the key without its '[]' suffix
BareKey(key) ==
    IF Len(key) >= 2 /\ SubSeq(key, Len(key) - 1, Len(key)) = "[]"
    THEN SubSeq(key, 1, Len(key) - 2) ELSE key

\* the routed non-empty pairs that address the top-level field f
Addressing(f) ==
    LET hits == {n \in 1..(i - 1) : entries[n].value # "" /\ BareKey(entries[n].key) = f}
        RECURSIVE Pick(_)
        Pick(n) == IF n > i - 1 THEN <<>>
                   ELSE (IF n \in hits THEN <<entries[n]>> ELSE <<>>) \o Pick(n + 1)
    IN Pick(1)

(***************************************************************************)
(* C1: a pair whose value is the empty string is excluded before routing:  *)
(* the coerced output is at every step what routing the non-empty pairs    *)
(* alone gives, the call ends as it does on the input without its empty    *)
(* pairs, and {"name": ""} against optional fields is Success with data {} *)
(***************************************************************************)
C1_EmptyPairsExcluded ==
    /\ pc = "loop" => o = RouteAll(EmptyObj, schema, NonEmptyPairs(Routed))
    /\ Ended => Produced = getParamsInternal(NonEmptyPairs(entries), schema)
    /\ (pc = "returned" /\ schema = ProfileSchema /\ entries = <<Pair("name", "")>>)
          => result = Success(EmptyObj)

\* a call that returned Success from an input holding an empty-valued pair
\* for a declared field, and a non-empty one
C1_Witness ==
    /\ pc = "returned"
    /\ result.success
    /\ \E n \in DOMAIN entries :
          entries[n].value = "" /\ entries[n].key \in TopFields(schema)
    /\ \E n \in DOMAIN entries : entries[n].value # ""

(***************************************************************************)
(* C2: a non-empty pair whose key is a '.'-separated path through nested   *)
(* Object schemas to a leaf field is routed without an exception, and the  *)
(* coerced output then holds the coerced value at exactly that path        *)
(***************************************************************************)
C2_DottedPathHoldsValue ==
    /\ (pc = "loop" /\ i > 1 /\ entries[i - 1].value # "")
          => LET p == entries[i - 1]
                 leaf == Unwrapped(FieldAtPath(schema, p.key))
             IN leaf.kind \in LeafKinds
                   => ValueAtPath(o, p.key) = ExpectedLeaf(leaf.kind, p.value)
    /\ (pc = "threw" /\ i <= Len(entries))
          => Unwrapped(FieldAtPath(schema, entries[i].key)).kind \notin LeafKinds

\* the pair address.geo.lat = 7 has just been routed, three levels deep
C2_Witness ==
    /\ pc = "loop"
    /\ i > 1
    /\ entries[i - 1] = Pair("address.geo.lat", "7")
    /\ ValueAtPath(o, "address.geo.lat") = Num(7)
    /\ ValueAtPath(o, "address.city") = Str("Boston")

(***************************************************************************)
(* C3: for the pairs addressing one top-level field of an Object schema,   *)
(* whatever other pairs are interleaved: an Array field (possibly wrapped) *)
(* holds the coerced non-empty values in input order, one per pair, and a  *)
(* scalar field holds the value of the last non-empty pair                 *)
(***************************************************************************)
C3_AppendOrLastWrite ==
    (pc \in {"loop", "errors", "returned"} /\ Structural(schema).kind = "ZodObject")
       => \A f \in TopFields(schema) :
             LET def == Unwrapped(DeclaredField(Structural(schema), f))
                 hits == Addressing(f)
             IN hits # <<>>
                   => IF def.kind = "ZodArray"
                      THEN /\ Unwrapped(def.element).kind \in LeafKinds
                           /\ GetProp(o, f)
                                 = Arr([n \in 1..Len(hits) |->
                                          ExpectedLeaf(Unwrapped(def.element).kind,
                                                       hits[n].value)])
                      ELSE def.kind \in LeafKinds
                              => GetProp(o, f)
                                    = ExpectedLeaf(def.kind, hits[Len(hits)].value)

(***************************************************************************)
(* C4: unknown input keys are silently ignored: a pair whose key matches   *)
(* no field path of the schema does not make the call throw and changes    *)
(* nothing of its result, which is that of the input without such pairs    *)
(***************************************************************************)
\* the key, without a '[]' suffix, is a path of field names through nested
\* Object schemas (of some option, under a Union)
RECURSIVE MatchesFieldPath(_, _)
MatchesFieldPath(sch, key) ==
    LET node == Structural(sch)
    IN IF node.kind = "ZodUnion"
       THEN \E n \in DOMAIN node.options : MatchesFieldPath(node.options[n], key)
       ELSE FieldAtPath(node, BareKey(key)) # NoDef

KnownPair(p) == MatchesFieldPath(schema, p.key)

\* C4: the call ends, with a result or an exception, exactly as it does on the
\* input without the pairs whose key matches no field path
C4_UnknownKeysIgnored ==
    Ended => Produced = getParamsInternal(SelectSeq(entries, KnownPair), schema)

(***************************************************************************)
(* C5: for a schema whose nodes are all of the kinds of the data model, no *)
(* input makes the call throw: it returns Success or Failure               *)
(***************************************************************************)
ListedKinds == LeafKinds \cup WrapperKinds \cup {"ZodObject", "ZodUnion", "ZodArray"}

RECURSIVE AllListedKinds(_)
AllListedKinds(node) ==
    /\ node.kind \in ListedKinds
    /\ node.kind \in {"ZodOptional", "ZodDefault"} => AllListedKinds(node.innerType)
    /\ node.kind = "ZodEffects" => AllListedKinds(node.schema)
    /\ node.kind = "ZodArray" => AllListedKinds(node.element)
    /\ node.kind = "ZodUnion"
          => \A n \in DOMAIN node.options : AllListedKinds(node.options[n])
    /\ node.kind = "ZodObject"
          => \A n \in DOMAIN node.shape.fields : AllListedKinds(node.shape.fields[n].def)

\* C5: with a schema of listed kinds only, the call never ends in an exception
\* and returns Success without errors or Failure without data
C5_NeverThrowsOnInput ==
    AllListedKinds(schema)
       => /\ pc # "threw"
          /\ pc = "returned"
                => \/ result.success /\ result.errors = Undefined
                   \/ ~result.success /\ result.data = Undefined

(***************************************************************************)
(* C6: on a validation failure the errors mapping holds, for every key     *)
(* that is the first path segment of some issue, that key's messages in    *)
(* issue order (the message itself when there is one, the sequence when    *)
(* there are more) and holds no other key                                  *)
(***************************************************************************)
\* the first path segment of an issue; an issue without a path is filed
\* under the key "undefined"
FirstSegment(issue) ==
    IF issue.path = <<>> THEN "undefined"
    ELSE IF "k" \in DOMAIN issue.path[1] THEN issue.path[1].k
    ELSE ToString(issue.path[1].i)

\* the messages of the first n issues filed under key k, in issue order
MessagesOf(k, n) ==
    LET RECURSIVE From(_)
        From(m) == IF m > n THEN <<>>
                   ELSE (IF FirstSegment(issues[m]) = k THEN <<Str(issues[m].message)>>
                         ELSE <<>>) \o From(m + 1)
    IN From(1)

ErrorsMatchIssues(errs, n) ==
    /\ ErrorKeys(errs) = {FirstSegment(issues[m]) : m \in 1..n}
    /\ \A e1, e2 \in DOMAIN errs : errs[e1].key = errs[e2].key => e1 = e2
    /\ \A e \in DOMAIN errs :
          LET msgs == MessagesOf(errs[e].key, n)
          IN errs[e].value = IF Len(msgs) = 1 THEN msgs[1] ELSE Arr(msgs)

\* C6: the errors mapping, while it is built and when it is returned, groups
\* the issues seen by first path segment, in issue order
C6_ErrorsGroupIssues ==
    /\ pc = "errors" => ErrorsMatchIssues(errors, j - 1)
    /\ (pc \in {"returned", "done"} /\ ~result.success)
          => /\ issues # <<>>
             /\ ErrorsMatchIssues(result.errors.props, Len(issues))

\* a Failure returned with two messages under one field, a single message
\* under another
C6_Witness ==
    /\ pc = "returned"
    /\ ~result.success
    /\ \E e1, e2 \in DOMAIN result.errors.props :
          /\ result.errors.props[e1].value.t = "array"
          /\ Len(result.errors.props[e1].value.items) = 2
          /\ result.errors.props[e2].value.t = "string"

(***************************************************************************)
(* C7: the OrFail variants agree with the plain ones: on Success they      *)
(* return the data itself, on Failure they throw an Error whose message is *)
(* the JSON serialization of the errors mapping the plain variant returns  *)
(***************************************************************************)
PlainFns == {"getParams", "getSearchParams", "getFormData"}
OrFailFns == {"getParamsOrFail", "getSearchParamsOrFail", "getFormDataOrFail"}

\* C7: a plain variant returns the result of getParamsInternal; an OrFail
\* variant returns its data, or throws the JSON of its errors
C7_OrFailAgrees ==
    pc = "done"
       => LET plain == getParamsInternal(entries, schema)
          IN IF outcome.t = "return" /\ outcome.fn \in PlainFns
             THEN outcome.value = plain
             ELSE IF plain.success
             THEN /\ outcome.t = "return"
                  /\ outcome.fn \in OrFailFns
                  /\ outcome.value = plain.data
             ELSE /\ outcome.t = "throw"
                  /\ outcome.fn \in OrFailFns
                  /\ outcome.name = "Error"
                  /\ outcome.message = JSONstringify(plain.errors)
                  /\ (schema = ProfileSchema
                      /\ entries = <<Pair("age", "ab"), Pair("name", "a")>>)
                        => outcome.message
                              = "{\"name\":[\"String must contain at least 2 character(s)\","
                                \o "\"Invalid email\"],"
                                \o "\"age\":\"Expected number, received string\"}"

\* getParamsOrFail has thrown on a Failure with a field of two messages
C7_Witness ==
    /\ pc = "done"
    /\ outcome.t = "throw"
    /\ outcome.fn = "getParamsOrFail"
    /\ ~result.success
    /\ \E e \in DOMAIN result.errors.props : result.errors.props[e].value.t = "array"

(***************************************************************************)
(* C8: re-serializing the data of a Success into flat pairs (dotted keys   *)
(* for nested objects, one '[]'-suffixed pair per array element in order,  *)
(* scalars as their string form) and parsing that against the same schema  *)
(* returns Success with equal data                                         *)
(***************************************************************************)
\* the ISO string form of a date that is a whole day of January 1970
DateToISOString(ms) ==
    LET day == (ms \div 86400000) + 1
    IN "1970-01-" \o (IF day < 10 THEN "0" ELSE "") \o ToString(day) \o "T00:00:00.000Z"

ScalarString(v) ==
    IF v.t = "string" THEN v.s
    ELSE IF v.t = "number" THEN NumberToString(v.n)
    ELSE IF v.t = "boolean" THEN (IF v.b THEN "true" ELSE "false")
    ELSE IF v.t = "date" THEN DateToISOString(v.ms)
    ELSE ""

RECURSIVE Flatten(_, _)
RECURSIVE FlattenProps(_, _, _)
RECURSIVE FlattenItems(_, _)
FlattenItems(items, key) ==
    IF items = <<>> THEN <<>>
    ELSE <<Pair(key \o "[]", ScalarString(Head(items)))>> \o FlattenItems(Tail(items), key)

FlattenProps(obj, keys, prefix) ==
    IF keys = {} THEN <<>>
    ELSE LET k == CHOOSE x \in keys : TRUE
         IN Flatten(obj.props[k], IF prefix = "" THEN k ELSE prefix \o "." \o k)
            \o FlattenProps(obj, keys \ {k}, prefix)

Flatten(v, key) ==
    IF v.t = "object" THEN FlattenProps(v, DOMAIN v.props, key)
    ELSE IF v.t = "array" THEN FlattenItems(v.items, key)
    ELSE <<Pair(key, ScalarString(v))>>

\* C8: parsing the flattened data of a Success returns that same Success
C8_ReparseIdempotent ==
    (pc = "returned" /\ result.success)
       => getParamsInternal(Flatten(result.data, ""), schema) = result

(***************************************************************************)
(* C9: processDef coerces a raw non-empty string by the innermost leaf     *)
(* kind under any nesting of Optional / Default / Effect and writes it     *)
(* under the field name: String, Literal and the Enums the raw string;     *)
(* Number the parsed number, the raw string when the parse fails (then the *)
(* validator fails the field); Boolean false for "false", true otherwise;  *)
(* Date the parsed date or the raw string; another kind throws an Error    *)
(* naming the key                                                          *)
(***************************************************************************)
C9_LeafCoercion ==
    /\ (pc = "loop" /\ i > 1 /\ entries[i - 1].value # "")
          => LET key == entries[i - 1].key
                 raw == entries[i - 1].value
                 kind == Unwrapped(DeclaredField(schema, key)).kind
                 written == GetProp(o, key)
             IN /\ kind \in {"ZodString", "ZodLiteral", "ZodEnum", "ZodNativeEnum"}
                      => written = Str(raw)
                /\ kind = "ZodNumber"
                      => written = IF JSNumber(raw) = NaN THEN Str(raw) ELSE JSNumber(raw)
                /\ kind = "ZodBoolean"
                      => written = Bool(raw # "false")
                /\ kind = "ZodDate"
                      => written = IF DateParse(raw) = NaN THEN Str(raw)
                                   ELSE DateOf(DateParse(raw).n)
    /\ (pc = "threw" /\ i <= Len(entries) /\ DeclaredField(schema, entries[i].key) # NoDef)
          => LET kind == Unwrapped(DeclaredField(schema, entries[i].key)).kind
             IN /\ kind \notin LeafKinds \cup {"ZodArray"}
                /\ outcome = Throw("Error", "Unexpected type " \o kind
                                            \o " for key " \o entries[i].key)
    /\ (pc = "returned" /\ schema = ProfileSchema /\ entries = <<Pair("age", "ab")>>)
          => ~result.success /\ ErrorKeys(result.errors.props) = {"age"}

\* the pair ok = "yes" has just been written as true under an Optional
C9_Witness ==
    /\ pc = "loop"
    /\ i > 1
    /\ entries[i - 1] = Pair("ok", "yes")
    /\ GetProp(o, "ok") = Bool(TRUE)

(***************************************************************************)
(* C10: under a Union schema the fan-out over the options leaves, for every *)
(* field addressed, what assigning the pairs under a single option that     *)
(* declares the field would have produced: one element per pair in an Array *)
(* field, the last value in a scalar field                                  *)
(***************************************************************************)
C10_UnionFanOutHarmless ==
    (pc = "loop" /\ Structural(schema).kind = "ZodUnion")
       => \A f \in TopFields(schema) :
             LET hits == Addressing(f)
                 options == Structural(schema).options
             IN hits # <<>>
                   => \E n \in DOMAIN options :
                         /\ DeclaredField(options[n], f) # NoDef
                         /\ GetProp(o, f) = GetProp(RouteAll(EmptyObj, options[n], hits), f)

====
